---- MODULE Spec2Model ----
(***************************************************************************)
(* State-machine model of the FileShare component (src/src/App.tsx).       *)
(* Strings that the code inspects character by character (the share codes  *)
(* and the code field) are sequences of one-character strings.             *)
(***************************************************************************)
EXTENDS Integers, Sequences, FiniteSets

VARIABLES view, fileShares, uploadedCode, downloadCode, error,
          pc, file, code, urlCount, downloads

vars == <<view, fileShares, uploadedCode, downloadCode, error,
          pc, file, code, urlCount, downloads>>

(* the React state of App, as opposed to the locals of a running handler *)
appState == <<view, fileShares, uploadedCode, downloadCode, error>>

----------------------------------------------------------------------------
(* Bounds *)

(* number of low values of floor(Math.random() * 9000) that are sampled;   *)
(* the highest value, 8999, is always sampled as well                      *)
NDraws == 1

(* number of download triggers (a.click()) that are recorded *)
MaxDownloads == 2

(* number of put calls in the specification of the bare registry *)
MaxPuts == 2

----------------------------------------------------------------------------
(* Program constants *)

CodeBase == 1000
CodeSpan == 9000
CodeLen == 4

InvalidCodeMsg == "Invalid code. Please check and try again."

----------------------------------------------------------------------------
(* Strings *)

DigitChars == <<"0", "1", "2", "3", "4", "5", "6", "7", "8", "9">>

Digits == {DigitChars[i] : i \in 1..10}

IsDigit(ch) == ch \in Digits

Min(a, b) == IF a < b THEN a ELSE b

(* Number.prototype.toString() of a non-negative integer *)
RECURSIVE toString(_)
toString(n) ==
    IF n < 10 THEN <<DigitChars[n + 1]>>
    ELSE toString(n \div 10) \o <<DigitChars[(n % 10) + 1]>>

(* value.replace(/\D/g, '') *)
StripNonDigits(s) == SelectSeq(s, IsDigit)

(* value.slice(0, n) *)
Slice0(s, n) == SubSeq(s, 1, Min(n, Len(s)))

----------------------------------------------------------------------------
(* Map<string, FileShare> *)

EmptyMap == [k \in {} |-> k]

NoFile == [name |-> "", size |-> 0]

(* the result of Map.get on a missing key *)
Undefined == [code |-> <<>>, file |-> NoFile, url |-> 0]

MapHas(m, k) == k \in DOMAIN m

MapGetAny(m, k) ==
    IF DOMAIN m # {} THEN m[CHOOSE x \in DOMAIN m : TRUE] ELSE Undefined

MapGet(m, k) == IF k \in DOMAIN m THEN m[k] ELSE Undefined

MapSetKeepFirst(m, k, v) ==
    [x \in (DOMAIN m) \cup {k} |-> IF x \in DOMAIN m THEN m[x] ELSE v]

MapSetOnly(m, k, v) == [x \in {k} |-> v]

MapSet(m, k, v) ==
    [x \in (DOMAIN m) \cup {k} |-> IF x = k THEN v ELSE m[x]]

----------------------------------------------------------------------------
(* Inputs *)

(* File objects delivered by the file input or by a drop *)
Files == {[name |-> "report.pdf", size |-> 2048],
          [name |-> "notes.txt", size |-> 0]}

(* sampled values of floor(Math.random() * 9000), both ends included *)
RandomInts == (0 .. (NDraws - 1)) \cup {CodeSpan - 1}

DrawCodeNoBase(r) == toString(r)

(* Math.floor(1000 + Math.random() * 9000).toString() *)
DrawCode(r) == toString(CodeBase + r)

(* codes a user may try: every code that can be drawn and one that cannot *)
Probes == {DrawCode(r) : r \in RandomInts} \cup {<<"0", "0", "0", "7">>}

(* e.target.value: codes typed in part, in full, with stray characters,   *)
(* or pasted with characters in excess                                     *)
TypedValues ==
    UNION {
        {SubSeq(p, 1, k) : k \in 0..Len(p)}
            \cup {<<"a">> \o p, p \o <<"5">>,
                  <<p[1], "-">> \o SubSeq(p, 2, Len(p))}
        : p \in Probes}

----------------------------------------------------------------------------
Init ==
    /\ view = "upload"
    /\ fileShares = EmptyMap
    /\ uploadedCode = <<>>
    /\ downloadCode = <<>>
    /\ error = ""
    /\ pc = "idle"
    /\ file = NoFile
    /\ code = <<>>
    /\ urlCount = 0
    /\ downloads = <<>>

----------------------------------------------------------------------------
(* Rendering conditions: which controls exist and are enabled *)

(* the drop zone and the file input: view === 'upload' and !uploadedCode *)
DropZoneShown == view = "upload" /\ uploadedCode = <<>>

(* the 'File Uploaded!' panel with the 'Upload Another File' button *)
UploadedPanelShown == view = "upload" /\ uploadedCode # <<>>

(* the code field and the 'Download File' button *)
DownloadFormShown == view = "download"

DownloadEnabledAlways == TRUE

(* disabled={downloadCode.length !== 4} *)
DownloadEnabled == Len(downloadCode) = CodeLen

----------------------------------------------------------------------------
(* handleFileUpload, entered from handleFileSelect or handleDrop: the file *)
(* is bound and generateCode is called                                     *)
handleFileUpload(f) ==
    /\ pc = "idle"
    /\ DropZoneShown
    /\ f # NoFile
    /\ pc' = "generateCode"
    /\ file' = f
    /\ code' = <<>>
    /\ UNCHANGED <<appState, urlCount, downloads>>

CodeTakenNever(m, c) == FALSE

CodeTakenInverted(m, c) == ~MapHas(m, c)

(* the loop condition of generateCode: fileShares.has(code) *)
CodeTaken(m, c) == MapHas(m, c)

(* one iteration of the do-while loop that draws a registered code: the    *)
(* loop goes round again                                                   *)
generateCodeRetry ==
    /\ pc = "generateCode"
    /\ \E r \in RandomInts :
          /\ CodeTaken(fileShares, DrawCode(r))
          /\ code' = DrawCode(r)
    /\ UNCHANGED <<appState, pc, file, urlCount, downloads>>

(* the rest of handleFileUpload once a code c is at hand: the object URL,  *)
(* the new share, the three state setters                                  *)
put(c, f) ==
    /\ urlCount' = urlCount + 1
    /\ fileShares' = MapSet(fileShares, c,
                            [code |-> c, file |-> f, url |-> urlCount + 1])
    /\ uploadedCode' = c
    /\ error' = ""

(* the iteration of the loop that draws a free code: generateCode returns  *)
(* it and handleFileUpload runs to its end                                 *)
generateCodeReturn ==
    /\ pc = "generateCode"
    /\ \E r \in RandomInts :
          /\ ~CodeTaken(fileShares, DrawCode(r))
          /\ code' = DrawCode(r)
          /\ put(DrawCode(r), file)
    /\ pc' = "idle"
    /\ UNCHANGED <<view, downloadCode, file, downloads>>

(* onClick of the 'Upload File' tab *)
UploadTabClickKeepError ==
    /\ pc = "idle"
    /\ view' = "upload"
    /\ uploadedCode' = <<>>
    /\ UNCHANGED <<error, fileShares, downloadCode, pc, file, code, urlCount,
                   downloads>>

UploadTabClick ==
    /\ pc = "idle"
    /\ view' = "upload"
    /\ error' = ""
    /\ uploadedCode' = <<>>
    /\ UNCHANGED <<fileShares, downloadCode, pc, file, code, urlCount,
                   downloads>>

(* onClick of the 'Download File' tab *)
DownloadTabClick ==
    /\ pc = "idle"
    /\ view' = "download"
    /\ error' = ""
    /\ downloadCode' = <<>>
    /\ UNCHANGED <<fileShares, uploadedCode, pc, file, code, urlCount,
                   downloads>>

UploadAnotherForget ==
    /\ pc = "idle"
    /\ UploadedPanelShown
    /\ uploadedCode' = <<>>
    /\ fileShares' = [k \in (DOMAIN fileShares) \ {uploadedCode}
                        |-> fileShares[k]]
    /\ UNCHANGED <<view, downloadCode, error, pc, file, code,
                   urlCount, downloads>>

(* onClick of 'Upload Another File' *)
UploadAnother ==
    /\ pc = "idle"
    /\ UploadedPanelShown
    /\ uploadedCode' = <<>>
    /\ UNCHANGED <<view, fileShares, downloadCode, error, pc, file, code,
                   urlCount, downloads>>

(* onChange of the code field *)
CodeChange(raw) ==
    /\ pc = "idle"
    /\ DownloadFormShown
    /\ downloadCode' = Slice0(StripNonDigits(raw), CodeLen)
    /\ error' = ""
    /\ UNCHANGED <<view, fileShares, uploadedCode, pc, file, code, urlCount,
                   downloads>>

handleDownloadClearOnMiss ==
    /\ pc = "idle"
    /\ DownloadFormShown
    /\ DownloadEnabled
    /\ LET share == MapGet(fileShares, downloadCode) IN
          IF share = Undefined
          THEN /\ error' = InvalidCodeMsg
               /\ downloadCode' = <<>>
               /\ UNCHANGED downloads
          ELSE /\ Len(downloads) < MaxDownloads
               /\ downloads' = Append(downloads,
                                      [href |-> share.url,
                                       download |-> share.file.name])
               /\ error' = ""
               /\ downloadCode' = <<>>
    /\ UNCHANGED <<view, fileShares, uploadedCode, pc, file, code, urlCount>>

(* onClick of the 'Download File' button: the lookup, then either the      *)
(* error message or the click on the anchor                                *)
handleDownload ==
    /\ pc = "idle"
    /\ DownloadFormShown
    /\ DownloadEnabled
    /\ LET share == MapGet(fileShares, downloadCode) IN
          IF share = Undefined
          THEN /\ error' = InvalidCodeMsg
               /\ UNCHANGED <<downloadCode, downloads>>
          ELSE /\ Len(downloads) < MaxDownloads
               /\ downloads' = Append(downloads,
                                      [href |-> share.url,
                                       download |-> share.file.name])
               /\ error' = ""
               /\ downloadCode' = <<>>
    /\ UNCHANGED <<view, fileShares, uploadedCode, pc, file, code, urlCount>>

----------------------------------------------------------------------------
Next ==
    \/ \E f \in Files : handleFileUpload(f)
    \/ generateCodeRetry
    \/ generateCodeReturn
    \/ UploadTabClick
    \/ DownloadTabClick
    \/ UploadAnother
    \/ \E raw \in TypedValues : CodeChange(raw)
    \/ handleDownload

Spec == Init /\ [][Next]_vars

(* the random draws are fair: a free code that can be drawn is drawn in    *)
(* the end                                                                 *)
FairSpec == Init /\ [][Next]_vars /\ WF_vars(generateCodeReturn)

----------------------------------------------------------------------------
(* The bare registry: put with any code and any file, get through the      *)
(* download form                                                           *)

putAny(c, f) ==
    /\ pc = "idle"
    /\ urlCount < MaxPuts
    /\ file' = f
    /\ code' = c
    /\ put(c, f)
    /\ UNCHANGED <<view, downloadCode, pc, downloads>>

PutNext ==
    \/ \E c \in Probes, f \in Files : putAny(c, f)
    \/ DownloadTabClick
    \/ \E raw \in TypedValues : CodeChange(raw)
    \/ handleDownload

PutSpec == Init /\ [][PutNext]_vars

----------------------------------------------------------------------------
(* Vocabulary of the properties *)

DigitValue(ch) == CHOOSE d \in 0..9 : DigitChars[d + 1] = ch

RECURSIVE DecimalValue(_)
DecimalValue(s) ==
    IF s = <<>> THEN 0
    ELSE 10 * DecimalValue(SubSeq(s, 1, Len(s) - 1)) + DigitValue(s[Len(s)])

AllDigits(s) == \A i \in 1..Len(s) : IsDigit(s[i])

IsFourDigitCode(s) ==
    /\ Len(s) = 4
    /\ AllDigits(s)
    /\ s[1] # "0"
    /\ DecimalValue(s) >= 1000
    /\ DecimalValue(s) <= 9999

Size(m) == Cardinality(DOMAIN m)

(* a step in which handleFileUpload stores a share *)
UploadStep == urlCount' # urlCount

(* a step of handleDownload: the anchor is clicked or the message appears *)
DownloadStep == downloads' # downloads \/ (error = "" /\ error' # "")

(* every code that can be drawn is registered *)
KeyspaceFull == \A r \in RandomInts : MapHas(fileShares, DrawCode(r))

----------------------------------------------------------------------------
(* C1: the code generateCode returns for an upload is not a key of the     *)
(* registry when it is assigned; the upload adds one entry and leaves the  *)
(* others as they were, so N uploads leave N entries with distinct codes.  *)
C1_UniqueCodes ==
    /\ [](Size(fileShares) = urlCount)
    /\ [][UploadStep =>
            /\ ~MapHas(fileShares, code')
            /\ uploadedCode' = code'
            /\ Size(fileShares') = Size(fileShares) + 1
            /\ \A k \in DOMAIN fileShares : fileShares'[k] = fileShares[k]
         ]_vars

C1_Witness ==
    /\ urlCount >= 2
    /\ Len(downloads) >= 1
    /\ error # ""

(* C2: every key of the registry, and every code generateCode has drawn or *)
(* returned, is 4 decimal digits without a leading zero, of value in       *)
(* 1000..9999.                                                             *)
C2_CodeFormat ==
    /\ \A k \in DOMAIN fileShares :
          IsFourDigitCode(k) /\ fileShares[k].code = k
    /\ code # <<>> => IsFourDigitCode(code)
    /\ uploadedCode # <<>> => IsFourDigitCode(uploadedCode)

C2_Witness ==
    /\ MapHas(fileShares, <<"1", "0", "0", "0">>)
    /\ MapHas(fileShares, <<"9", "9", "9", "9">>)

(* C3: after an upload of file f got code c, the lookup of c finds f, and  *)
(* a download with c clicks an anchor with f's URL and name and shows no   *)
(* error; a download with a code that is not registered shows the error    *)
(* and clicks nothing.                                                     *)
C3_RoundTrip ==
    /\ [](pc = "idle" /\ uploadedCode # <<>> =>
             MapGet(fileShares, uploadedCode) =
                 [code |-> uploadedCode, file |-> file, url |-> urlCount])
    /\ [][DownloadStep =>
            IF downloadCode = uploadedCode
            THEN /\ error' = ""
                 /\ downloads' = Append(downloads,
                                        [href |-> urlCount,
                                         download |-> file.name])
            ELSE ~MapHas(fileShares, downloadCode) =>
                    /\ error' = InvalidCodeMsg
                    /\ downloads' = downloads
         ]_vars

C3_Witness ==
    /\ uploadedCode # <<>>
    /\ view = "download"
    /\ downloads # <<>>
    /\ downloads[Len(downloads)] = [href |-> urlCount, download |-> file.name]
    /\ error = ""

(* C4: a download attempt with a code that is not a key of the registry    *)
(* sets the error message, clicks nothing and leaves the registry, the     *)
(* code field and the view as they were.                                   *)
C4_Miss ==
    [][(~MapHas(fileShares, downloadCode) /\ DownloadStep) =>
          /\ error' = InvalidCodeMsg
          /\ UNCHANGED <<downloads, fileShares, downloadCode, view>>
      ]_vars

C4_Witness ==
    /\ error = InvalidCodeMsg
    /\ ~MapHas(fileShares, downloadCode)
    /\ Len(downloadCode) = 4
    /\ fileShares # EmptyMap

(* C5: no step removes or alters an entry of the registry.                 *)
C5_EntriesKept ==
    [][\A k \in DOMAIN fileShares :
          MapHas(fileShares', k) /\ fileShares'[k] = fileShares[k]]_vars

C5_Witness ==
    /\ Size(fileShares) >= 2
    /\ Len(downloads) >= 1
    /\ uploadedCode = <<>>
    /\ view = "upload"

(* C6: the code field holds at most 4 digits and nothing else, and         *)
(* handleDownload runs only when it holds exactly 4.                       *)
C6_LookupGuarded ==
    /\ [](Len(downloadCode) <= 4 /\ AllDigits(downloadCode))
    /\ [][DownloadStep => Len(downloadCode) = 4 /\ AllDigits(downloadCode)
         ]_vars

C6_Witness ==
    /\ view = "download"
    /\ downloadCode = <<>>
    /\ ~DownloadEnabled
    /\ Len(downloads) >= 1
    /\ fileShares # EmptyMap

(* C7: a put with a code that is already a key replaces the entry: the     *)
(* lookup of the code gives the share stored last, and the registry has    *)
(* as many entries as before.                                              *)
C7_Overwrite ==
    /\ [](code # <<>> =>
             MapGet(fileShares, code) =
                 [code |-> code, file |-> file, url |-> urlCount])
    /\ [][(UploadStep /\ MapHas(fileShares, code')) =>
             Size(fileShares') = Size(fileShares)]_vars

C7_Witness ==
    /\ Size(fileShares) = 1
    /\ urlCount = 2
    /\ Len(downloads) = 2
    /\ downloads[1].href = 1
    /\ downloads[2].href = 2
    /\ downloads[1].download # downloads[2].download

(* C8: with fair draws generateCode returns whenever a code that can be    *)
(* drawn is free; when none is free it never returns and the state of the  *)
(* component never changes.                                                *)
C8_Termination ==
    /\ (pc = "generateCode" /\ ~KeyspaceFull) ~> (pc = "idle")
    /\ [][(pc = "generateCode" /\ KeyspaceFull) =>
             (pc' = "generateCode"
                /\ UNCHANGED <<appState, urlCount, downloads>>)]_vars

C8_Witness ==
    /\ pc = "generateCode"
    /\ KeyspaceFull
    /\ code # <<>>

(* C9: when the error message is shown, the view is 'download', the code   *)
(* field holds exactly 4 digits and that code is not a key of the registry.*)
C9_ErrorFresh ==
    error # "" =>
        /\ view = "download"
        /\ Len(downloadCode) = 4
        /\ AllDigits(downloadCode)
        /\ ~MapHas(fileShares, downloadCode)

C9_Witness ==
    /\ error # ""
    /\ Size(fileShares) >= 1
    /\ downloadCode \in {DrawCode(r) : r \in RandomInts}

(* C10: a non-empty uploadedCode is a key of the registry and resolves to  *)
(* the file uploaded last; clearing uploadedCode leaves the registry as it *)
(* was.                                                                    *)
C10_UploadedCodeLive ==
    /\ [](uploadedCode # <<>> =>
             /\ MapHas(fileShares, uploadedCode)
             /\ fileShares[uploadedCode].file = file
             /\ file \in Files)
    /\ [][(uploadedCode # <<>> /\ uploadedCode' = <<>>) =>
             fileShares' = fileShares]_vars

C10_Witness ==
    /\ uploadedCode # <<>>
    /\ view = "upload"
    /\ urlCount >= 2

====
